---- MODULE Spec2Model ----
(***************************************************************************)
(* The game server of emaanbaluj/quiplash (latest revision of app.js):     *)
(* the in-memory gameState, the socket handlers that mutate it, the        *)
(* prompt assignment and the scoring step.                                 *)
(*                                                                         *)
(* Every handler is a function from the gameState it finds and the message *)
(* it receives to the gameState it leaves, the private reply it emits and  *)
(* whether it broadcasts; the actions apply the handlers to the messages   *)
(* the environment sends.                                                  *)
(***************************************************************************)
EXTENDS Integers, Sequences, FiniteSets, Bags, TLC

\* ---------------------------------------------------------------- bounds
NumSockets == 4        \* connections 1..NumSockets, usernames likewise
LobbySockets == 3      \* connections that log in before the game starts
MaxInFlight == 1       \* backend calls (login, prompt) awaited at one time
MaxOffScript == 1      \* events of one run that leave the scripted play

\* ------------------------------------------------------ program constants
MaxPlayers == 4
MaxRounds == 3
MinPromptLen == 20
MaxPromptLen == 120
PLAYER_VOTE_POINTS == 100
AUDIENCE_VOTE_POINTS == 50

Sockets == 1..NumSockets
Usernames == 1..NumSockets
NoPrompt == 0

VARIABLES
  gameState,      \* the gameState object
  calls,          \* backend calls awaited by handleLogin / handlePrompt
  env             \* what the environment has done so far

vars == <<gameState, calls, env>>

\* ------------------------------------------------------------- utilities
EmptyMap == <<>>

PutKey(f, k, v) == [x \in (DOMAIN f) \cup {k} |-> IF x = k THEN v ELSE f[x]]

MinOf(S) == CHOOSE x \in S : \A y \in S : x <= y

\* what a handler leaves behind: the gameState, the private reply (event
\* and result; event "none" when nothing is emitted), whether updateAll()
\* broadcast the state, and whether allAnswersReady was broadcast
Res(gs, ev, result, bcast) ==
  [gs |-> gs, ev |-> ev, result |-> result, bcast |-> bcast, ready |-> FALSE]

\* ------------------------------------------------------- roster lookups
\* findUserBySocketId: the first player with that socket id, else the first
\* audience member with it, else nothing (role "none")
findUserBySocketId(gs, s) ==
  LET pi == {i \in DOMAIN gs.players : gs.players[i].socketId = s}
      ai == {i \in DOMAIN gs.audience : gs.audience[i].socketId = s}
  IN IF pi # {} THEN [role |-> "player", idx |-> MinOf(pi)]
     ELSE IF ai # {} THEN [role |-> "audience", idx |-> MinOf(ai)]
     ELSE [role |-> "none", idx |-> 0]

\* the object findUserBySocketId returned
UserOf(gs, u) == IF u.role = "player" THEN gs.players[u.idx] ELSE gs.audience[u.idx]

\* a check that lets every player through
IsAdminUserAnyPlayer(gs, u) == u.role = "player"

\* user && user.isAdmin (an audience object has no isAdmin field)
IsAdminUser(gs, u) == u.role = "player" /\ gs.players[u.idx].isAdmin

\* gameState.players.find(p => p.username === name): index, or 0
findPlayerByUsername(gs, name) ==
  LET pi == {i \in DOMAIN gs.players : gs.players[i].username = name}
  IN IF pi = {} THEN 0 ELSE MinOf(pi)

\* ------------------------------------------------ prompt assignment engine
\* every outcome of the Fisher-Yates shuffle of n elements
shuffle(n) == {p \in [1..n -> 1..n] : \A i, j \in 1..n : p[i] = p[j] => i = j}

Swap(q, i, j) == [q EXCEPT ![i] = q[j], ![j] = q[i]]

\* a check that looks at the first player of the pair only
ValidForFirstOnly(pr, a, b) == pr.author # a

\* whether getNextValidPrompt may hand prompt pr to the pair (a, b)
ValidFor(pr, a, b) == pr.author # a /\ pr.author # b

\* getNextValidPrompt: the first prompt at or after promptIndex written by
\* neither player; it is swapped to promptIndex, which then moves on
getNextValidPrompt(sp, promptIndex, a, b) ==
  LET cand == {i \in promptIndex..Len(sp) : ValidFor(sp[i], a, b)}
  IN IF cand = {}
     THEN [found |-> FALSE, sp |-> sp, promptIndex |-> promptIndex, prompt |-> <<>>]
     ELSE LET i == MinOf(cand)
          IN [found |-> TRUE, sp |-> Swap(sp, i, promptIndex),
              promptIndex |-> promptIndex + 1, prompt |-> <<sp[i]>>]

\* the pairs of positions: (0,1),(2,3),... for an even count, the cycle
\* (i, i+1 mod n) for an odd count
PlayerPairs(n) ==
  IF n % 2 = 0
  THEN [k \in 1..(n \div 2) |-> <<2 * k - 1, 2 * k>>]
  ELSE [k \in 1..n |-> <<k, (k % n) + 1>>]

RECURSIVE AssignPairs(_, _, _, _, _, _)
\* the loop over the pairs: a pair whose prompt was found has it pushed on
\* the lists of both usernames
AssignPairs(sps, pairs, k, sp, promptIndex, asg) ==
  IF k > Len(pairs) THEN asg
  ELSE LET p1 == sps[pairs[k][1]]
           p2 == sps[pairs[k][2]]
           r == getNextValidPrompt(sp, promptIndex, p1.username, p2.username)
           a1 == [asg EXCEPT ![p1.username] = @ \o r.prompt]
           a2 == [a1 EXCEPT ![p2.username] = @ \o r.prompt]
       IN IF r.found
          THEN AssignPairs(sps, pairs, k + 1, r.sp, r.promptIndex, a2)
          ELSE AssignPairs(sps, pairs, k + 1, sp, promptIndex, asg)

\* assignPromptsToPlayers under the shuffle outcomes permP (players) and
\* permQ (prompts): a map from username to the list of prompts assigned
assignPromptsToPlayers(ps, prompts, permP, permQ) ==
  LET shuffledPlayers == [i \in 1..Len(ps) |-> ps[permP[i]]]
      shuffledPrompts == [i \in 1..Len(prompts) |-> prompts[permQ[i]]]
      assignments == [u \in {ps[i].username : i \in DOMAIN ps} |-> <<>>]
  IN AssignPairs(shuffledPlayers, PlayerPairs(Len(ps)), 1, shuffledPrompts, 1, assignments)

\* ----------------------------------------------------- completion gates
\* a gate that is content with one submitted prompt
allPromptsSubmittedSome(gs) ==
  \E i \in DOMAIN gs.players : gs.players[i].status = "PROMPT_SUBMITTED"

allPromptsSubmitted(gs) ==
  /\ Len(gs.players) > 0
  /\ \A i \in DOMAIN gs.players : gs.players[i].status = "PROMPT_SUBMITTED"

\* a check that forgets the players with nothing assigned
AnswersCompleteVacuous(p) ==
  \A k \in DOMAIN p.assignedPrompts : p.assignedPrompts[k].id \in DOMAIN p.answers

\* one player's part of allAnswersSubmitted
AnswersComplete(p) ==
  /\ Len(p.assignedPrompts) > 0
  /\ \A k \in DOMAIN p.assignedPrompts : p.assignedPrompts[k].id \in DOMAIN p.answers

allAnswersSubmitted(gs) ==
  /\ Len(gs.players) > 0
  /\ \A i \in DOMAIN gs.players : AnswersComplete(gs.players[i])

allVotesSubmitted(gs) ==
  /\ Len(gs.players) > 0
  /\ Len(gs.activePrompts) > 0
  /\ \A i \in DOMAIN gs.players :
       Cardinality(DOMAIN gs.players[i].votesCast) = Len(gs.activePrompts)

\* ------------------------------------------------------- roster entries
\* The state object of an entry is flattened into the entry; oid is the
\* identity of the JavaScript object (handlePrompt keeps a reference to it
\* across its await).
NewPlayer(oid, s, name, isAdmin) ==
  [oid |-> oid, socketId |-> s, username |-> name, score |-> 0,
   isAdmin |-> isAdmin, status |-> "JOINING", prompt |-> NoPrompt,
   assignedPrompts |-> <<>>, answers |-> EmptyMap, votesCast |-> EmptyMap,
   roundVotes |-> 0, roundScore |-> 0]

NewAudience(oid, s, name) ==
  [oid |-> oid, socketId |-> s, username |-> name, status |-> "AUDIENCE",
   prompt |-> NoPrompt, answers |-> EmptyMap]

\* const isAdmin = gameState.players.length === 0
FirstPlayer(gs) == Len(gs.players) = 0

\* a join that looks at the stage only
addPlayerOrAudienceNoCap(gs, oid, s, name) ==
  IF gs.stage = "JOINING"
  THEN [gs EXCEPT !.players = Append(@, NewPlayer(oid, s, name, FirstPlayer(gs)))]
  ELSE [gs EXCEPT !.audience = Append(@, NewAudience(oid, s, name))]

addPlayerOrAudience(gs, oid, s, name) ==
  IF Len(gs.players) < MaxPlayers /\ gs.stage = "JOINING"
  THEN [gs EXCEPT !.players = Append(@, NewPlayer(oid, s, name, FirstPlayer(gs)))]
  ELSE [gs EXCEPT !.audience = Append(@, NewAudience(oid, s, name))]

\* ------------------------------------------------------- stage functions
\* a reset that starts the new round from a score of zero
ResetForRoundAndScore(p) ==
  [p EXCEPT !.status = "WAITING_FOR_PROMPTS", !.prompt = NoPrompt,
            !.assignedPrompts = <<>>, !.answers = EmptyMap,
            !.votesCast = EmptyMap, !.roundVotes = 0, !.roundScore = 0,
            !.score = 0]

ResetForRound(p) ==
  [p EXCEPT !.status = "WAITING_FOR_PROMPTS", !.prompt = NoPrompt,
            !.assignedPrompts = <<>>, !.answers = EmptyMap,
            !.votesCast = EmptyMap, !.roundVotes = 0, !.roundScore = 0]

\* a start of the prompt stage that forgets the round counter
startPromptStageSameRound(gs) ==
  [gs EXCEPT !.stage = "PROMPTS",
             !.players = [i \in DOMAIN @ |-> ResetForRound(@[i])],
             !.audience = [i \in DOMAIN @ |-> [@[i] EXCEPT !.status = "AUDIENCE_WAITING"]],
             !.activePrompts = <<>>,
             !.audienceVotes = EmptyMap]

\* a start of the prompt stage that keeps the audience tally
startPromptStageKeepTally(gs) ==
  [gs EXCEPT !.stage = "PROMPTS",
             !.round = @ + 1,
             !.players = [i \in DOMAIN @ |-> ResetForRound(@[i])],
             !.audience = [i \in DOMAIN @ |-> [@[i] EXCEPT !.status = "AUDIENCE_WAITING"]],
             !.activePrompts = <<>>]

startPromptStage(gs) ==
  [gs EXCEPT !.stage = "PROMPTS",
             !.round = @ + 1,
             !.players = [i \in DOMAIN @ |-> ResetForRound(@[i])],
             !.audience = [i \in DOMAIN @ |-> [@[i] EXCEPT !.status = "AUDIENCE_WAITING"]],
             !.activePrompts = <<>>,
             !.audienceVotes = EmptyMap]

\* players.filter(p => p.state.prompt).map((p, index) => ({id: index, ...}))
RoundPrompts(gs) ==
  LET authors == SelectSeq(gs.players, LAMBDA p : p.prompt # NoPrompt)
  IN [k \in DOMAIN authors |->
        [id |-> k - 1, text |-> authors[k].prompt, author |-> authors[k].username]]

startAnswerStage(gs, permP, permQ) ==
  LET prompts == RoundPrompts(gs)
      assignments == assignPromptsToPlayers(gs.players, prompts, permP, permQ)
  IN IF Len(prompts) = 0 THEN gs
     ELSE [gs EXCEPT !.activePrompts = prompts,
                     !.players = [i \in DOMAIN gs.players |->
                        [gs.players[i] EXCEPT
                           !.assignedPrompts = assignments[gs.players[i].username],
                           !.status = "WAITING_FOR_ANSWERS",
                           !.answers = EmptyMap]],
                     !.stage = "ANSWERS"]

startVotingStage(gs) ==
  [gs EXCEPT !.stage = "VOTING",
             !.players = [i \in DOMAIN @ |-> [@[i] EXCEPT !.status = "WAITING_FOR_VOTES"]]]

\* points of player i for the votes of the other players
PlayerPoints(gs, i) == gs.round * gs.players[i].roundVotes * PLAYER_VOTE_POINTS

RECURSIVE SumOver(_, _)
SumOver(f, S) ==
  IF S = {} THEN 0
  ELSE LET k == CHOOSE x \in S : TRUE IN f[k] + SumOver(f, S \ {k})

\* audience points counted at the rate of a player's vote
AudiencePointsFullRate(gs, i) ==
  LET mine == {k \in DOMAIN gs.audienceVotes :
                 findPlayerByUsername(gs, k[2]) = i}
  IN SumOver(gs.audienceVotes, mine) * PLAYER_VOTE_POINTS

\* points of player i for the audience votes: every (promptId, username)
\* counter goes to the first player carrying that username
AudiencePoints(gs, i) ==
  LET mine == {k \in DOMAIN gs.audienceVotes :
                 findPlayerByUsername(gs, k[2]) = i}
  IN SumOver(gs.audienceVotes, mine) * AUDIENCE_VOTE_POINTS

\* a scoring step that always shows the scores, as the earlier revisions did
StageAfterScoringAlways(gs) == "SCORING"

\* a scoring step that goes straight on to the next round
StageAfterScoringSkip(gs) == IF gs.round >= MaxRounds THEN "GAME_OVER" ELSE "PROMPTS"

\* the stage endVotingAndScoreRound leaves
StageAfterScoring(gs) == IF gs.round >= MaxRounds THEN "GAME_OVER" ELSE "SCORING"

endVotingAndScoreRound(gs) ==
  [gs EXCEPT !.players = [i \in DOMAIN @ |->
                [@[i] EXCEPT !.roundScore = PlayerPoints(gs, i) + AudiencePoints(gs, i),
                             !.score = @ + PlayerPoints(gs, i) + AudiencePoints(gs, i)]],
             !.stage = StageAfterScoring(gs)]

\* ------------------------------------------------------ the `next` event
\* a start of the game that is announced to the admin only
handleStartGameSilent(gs, s) ==
  LET u == findUserBySocketId(gs, s)
  IN IF ~IsAdminUser(gs, u) THEN Res(gs, "nextResult", FALSE, FALSE)
     ELSE IF gs.stage = "JOINING"
          THEN Res(startPromptStage(gs), "nextResult", TRUE, FALSE)
          ELSE Res(gs, "none", FALSE, FALSE)

handleStartGame(gs, s) ==
  LET u == findUserBySocketId(gs, s)
  IN IF ~IsAdminUser(gs, u) THEN Res(gs, "nextResult", FALSE, FALSE)
     ELSE IF gs.stage = "JOINING"
          THEN Res(startPromptStage(gs), "nextResult", TRUE, TRUE)
          ELSE Res(gs, "none", FALSE, FALSE)

\* the SCORING branch of handleAdvanceGame
AfterScores(gs) ==
  IF gs.round >= MaxRounds THEN [gs EXCEPT !.stage = "GAME_OVER"]
  ELSE startPromptStage(gs)

\* an end of handleAdvanceGame that starts the game over
AdvanceRestart(gs) == Res(startPromptStage(gs), "nextResult", TRUE, TRUE)

\* the end of handleAdvanceGame, reached in a stage it has no branch for
AdvanceNotImplemented(gs) == Res(gs, "nextResult", FALSE, FALSE)

handleAdvanceGame(gs, s, permP, permQ) ==
  LET u == findUserBySocketId(gs, s)
      reject == Res(gs, "nextResult", FALSE, FALSE)
  IN IF ~IsAdminUser(gs, u) THEN reject
     ELSE IF gs.stage = "PROMPTS"
       THEN IF ~allPromptsSubmitted(gs) THEN reject
            ELSE Res(startAnswerStage(gs, permP, permQ), "nextResult", TRUE,
                     Len(RoundPrompts(gs)) > 0)
     ELSE IF gs.stage = "ANSWERS"
       THEN IF ~allAnswersSubmitted(gs) THEN reject
            ELSE Res(startVotingStage(gs), "nextResult", TRUE, TRUE)
     ELSE IF gs.stage = "VOTING"
       THEN IF ~allVotesSubmitted(gs) THEN reject
            ELSE Res(endVotingAndScoreRound(gs), "nextResult", TRUE, TRUE)
     ELSE IF gs.stage = "SCORING"
       THEN Res(AfterScores(gs), "nextResult", TRUE, TRUE)
     ELSE AdvanceNotImplemented(gs)

\* socket.on('next')
OnNext(gs, s, permP, permQ) ==
  IF gs.stage = "JOINING" THEN handleStartGame(gs, s)
  ELSE handleAdvanceGame(gs, s, permP, permQ)

\* ------------------------------------------------------------- login
\* handleLogin after its await: ok is the backend's verdict
handleLogin(gs, oid, s, name, ok) ==
  IF ok THEN Res(addPlayerOrAudience(gs, oid, s, name), "loginResult", TRUE, TRUE)
  ELSE Res(gs, "loginResult", FALSE, FALSE)

\* ------------------------------------------------------------ prompts
\* A prompt text is modelled by its trimmed length.
\* a check that does not look at the stage
PromptPassesAnyStage(gs, s, len) ==
  LET u == findUserBySocketId(gs, s)
  IN /\ u.role # "none"
     /\ UserOf(gs, u).status # "PROMPT_SUBMITTED"
     /\ len >= MinPromptLen
     /\ len <= MaxPromptLen

\* handlePrompt up to its await: whether the message passes both checks
PromptPasses(gs, s, len) ==
  LET u == findUserBySocketId(gs, s)
  IN /\ u.role # "none"
     /\ gs.stage = "PROMPTS"
     /\ UserOf(gs, u).status # "PROMPT_SUBMITTED"
     /\ len >= MinPromptLen
     /\ len <= MaxPromptLen

\* the reply of handlePrompt before its await (none when it goes on to await)
handlePrompt(gs, s, len) ==
  IF PromptPasses(gs, s, len) THEN Res(gs, "none", FALSE, FALSE)
  ELSE Res(gs, "promptResult", FALSE, FALSE)

WritePrompt(x, oid, text) ==
  IF x.oid = oid THEN [x EXCEPT !.prompt = text, !.status = "PROMPT_SUBMITTED"] ELSE x

\* a handlePrompt that records the prompt whatever the backend said
handlePromptResumeUnchecked(gs, oid, text, ok) ==
  Res([gs EXCEPT !.players = [i \in DOMAIN @ |-> WritePrompt(@[i], oid, text)],
                 !.audience = [i \in DOMAIN @ |-> WritePrompt(@[i], oid, text)]],
      "promptResult", ok, TRUE)

\* handlePrompt after its await: the object it looked up before the await
\* is written, whatever happened to the game in between
handlePromptResume(gs, oid, text, ok) ==
  IF ok
  THEN Res([gs EXCEPT !.players = [i \in DOMAIN @ |-> WritePrompt(@[i], oid, text)],
                      !.audience = [i \in DOMAIN @ |-> WritePrompt(@[i], oid, text)]],
           "promptResult", TRUE, TRUE)
  ELSE Res(gs, "promptResult", FALSE, FALSE)

\* ------------------------------------------------------------ answers
\* An answer text is one of: 0 (missing, or the empty string), 1 ("a"),
\* 2 ("b"), 3 ("b" with blanks around it), 4 (blanks only).
\* data.text.trim()
Trim(text) == IF text = 3 THEN 2 ELSE IF text = 4 THEN 0 ELSE text

\* an answer that flips the status at once
WriteAnswerEager(x, pid, text) ==
  [x EXCEPT !.answers = PutKey(@, pid, text), !.status = "ANSWER_SUBMITTED"]

WriteAnswer(x, pid, text) ==
  LET answers == PutKey(x.answers, pid, text)
      allAnswered ==
        /\ x.assignedPrompts # <<>>
        /\ \A k \in DOMAIN x.assignedPrompts : x.assignedPrompts[k].id \in DOMAIN answers
  IN [x EXCEPT !.answers = answers,
               !.status = IF allAnswered THEN "ANSWER_SUBMITTED" ELSE @]

\* an audience entry has no assignedPrompts: only its answers are written
WriteAudienceAnswer(x, pid, text) == [x EXCEPT !.answers = PutKey(@, pid, text)]

handleAnswer(gs, s, pid, text) ==
  LET u == findUserBySocketId(gs, s)
  IN IF \/ u.role = "none"
        \/ UserOf(gs, u).status = "AUDIENCE"
        \/ gs.stage # "ANSWERS"
        \/ text = 0
     THEN Res(gs, "answerResult", FALSE, FALSE)
     ELSE LET g2 == IF u.role = "player"
                    THEN [gs EXCEPT !.players[u.idx] = WriteAnswer(@, pid, Trim(text))]
                    ELSE [gs EXCEPT !.audience[u.idx] = WriteAudienceAnswer(@, pid, Trim(text))]
          IN [Res(g2, "answerResult", TRUE, TRUE) EXCEPT !.ready = allAnswersSubmitted(g2)]

\* -------------------------------------------------------------- votes
\* the counter audienceVotes[promptId][targetUsername], kept under the key
\* <<promptId, targetUsername>>
BumpAudienceVote(av, pid, target) ==
  PutKey(av, <<pid, target>>, IF <<pid, target>> \in DOMAIN av THEN av[<<pid, target>>] + 1 ELSE 1)

\* the player path of handleVote once the vote is accepted
RecordVote(gs, vi, ti, pid) ==
  LET ps == [gs.players EXCEPT ![vi].votesCast = PutKey(@, pid, gs.players[ti].username)]
  IN [gs EXCEPT !.players = [ps EXCEPT ![ti].roundVotes = @ + 1]]

\* a check that lets a vote for oneself through
SelfVoteAllowed(gs, u, ti) == FALSE

\* targetPlayer.username === user.username
SelfVote(gs, u, ti) == gs.players[ti].username = UserOf(gs, u).username

\* a check that never finds an earlier vote
AlreadyVotedNever(gs, vi, pid) == FALSE

\* votingPlayer.state.votesCast[promptId] holds a username
AlreadyVoted(gs, vi, pid) == pid \in DOMAIN gs.players[vi].votesCast

handleVote(gs, s, pid, target) ==
  LET u == findUserBySocketId(gs, s)
      ti == findPlayerByUsername(gs, target)
      reject == Res(gs, "voteResult", FALSE, FALSE)
  IN IF u.role = "none" \/ gs.stage # "VOTING" THEN reject
     ELSE IF ti = 0 THEN reject
     ELSE IF SelfVote(gs, u, ti) THEN reject
     ELSE LET vi == findPlayerByUsername(gs, UserOf(gs, u).username)
          IN IF vi # 0
             THEN IF AlreadyVoted(gs, vi, pid) THEN reject
                  ELSE Res(RecordVote(gs, vi, ti, pid), "voteResult", TRUE, TRUE)
             ELSE Res([gs EXCEPT !.audienceVotes = BumpAudienceVote(@, pid, target)],
                      "voteResult", TRUE, TRUE)

\* ---------------------------------------------------------- disconnect
\* a disconnect that hands the admin role to the first player left
OnDisconnectPromote(gs, s) ==
  LET left == SelectSeq(gs.players, LAMBDA p : p.socketId # s)
      orphaned == left # <<>> /\ \A i \in DOMAIN left : ~left[i].isAdmin
  IN Res([gs EXCEPT !.players = IF orphaned THEN [left EXCEPT ![1].isAdmin = TRUE]
                                ELSE left,
                    !.audience = SelectSeq(@, LAMBDA a : a.socketId # s)],
         "none", FALSE, TRUE)

\* a disconnect that forgets the audience
OnDisconnectPlayersOnly(gs, s) ==
  Res([gs EXCEPT !.players = SelectSeq(@, LAMBDA p : p.socketId # s)],
      "none", FALSE, TRUE)

OnDisconnect(gs, s) ==
  Res([gs EXCEPT !.players = SelectSeq(@, LAMBDA p : p.socketId # s),
                 !.audience = SelectSeq(@, LAMBDA a : a.socketId # s)],
      "none", FALSE, TRUE)

\* ------------------------------------------------------- the broadcast
MaxOf(S) == CHOOSE x \in S : \A y \in S : x >= y

\* the id of a roster entry: set to socket.id when the entry is created and
\* never written again, like socketId
IdOf(x) == x.socketId

\* the place of player i in `sorted`: the sort by descending score is
\* stable, so players of equal score keep their roster order
SortedPosition(ps, i) ==
  1 + Cardinality({j \in DOMAIN ps : ps[j].score > ps[i].score})
    + Cardinality({j \in DOMAIN ps : j < i /\ ps[j].score = ps[i].score})

\* the rank property of publicPlayers[i] (0 when it is never set):
\* sorted.forEach looks the original up by id and writes idx + 1 on the
\* first entry with that id, the write of the highest idx staying
Rank(ps, i) ==
  LET sameId == {j \in DOMAIN ps : IdOf(ps[j]) = IdOf(ps[i])}
  IN IF i = MinOf(sameId)
     THEN MaxOf({SortedPosition(ps, j) : j \in sameId})
     ELSE 0

PublicPlayer(ps, i) ==
  [id |-> IdOf(ps[i]), username |-> ps[i].username, score |-> ps[i].score,
   isAdmin |-> ps[i].isAdmin, status |-> ps[i].status, prompt |-> ps[i].prompt,
   assignedPrompts |-> ps[i].assignedPrompts, answers |-> ps[i].answers,
   roundScore |-> ps[i].roundScore, votesCast |-> ps[i].votesCast,
   rank |-> Rank(ps, i)]

PublicAudience(a) == [id |-> IdOf(a), username |-> a.username, status |-> a.status]

\* the payload of the gameState event that updateAll emits
updateAll(gs) ==
  [stage |-> gs.stage, round |-> gs.round,
   players |-> [i \in DOMAIN gs.players |-> PublicPlayer(gs.players, i)],
   audience |-> [i \in DOMAIN gs.audience |-> PublicAudience(gs.audience[i])],
   activePrompts |-> gs.activePrompts]

\* ------------------------------------------------------- the environment
\* calls holds one record per handler suspended at an await; env counts what
\* has happened: socks is the highest connection that has logged in, dead
\* the connections that are gone, off the off-script events so far, oids
\* the roster objects created so far.
Live(s) == s \notin env.dead

ActiveIds == {gameState.activePrompts[k].id : k \in DOMAIN gameState.activePrompts}
PromptIds == 0..Len(gameState.activePrompts)      \* the active ids and one more
PromptLens == {MinPromptLen - 1, MinPromptLen, MaxPromptLen + 1}
AnswerTexts == {0, 1}

\* the ids of the prompts assigned to a user (an audience object has no
\* assignedPrompts)
AssignedIds(u) ==
  IF u.role = "player"
  THEN {gameState.players[u.idx].assignedPrompts[k].id :
          k \in DOMAIN gameState.players[u.idx].assignedPrompts}
  ELSE {}

\* The scripted play: the players take their turns in roster order, each one
\* submitting a prompt, then answering the prompts assigned to it in the
\* order assigned, then voting on the active prompts in order, each time for
\* the first answer that is not its own.  Off the script are: a dropped
\* connection that has a roster entry, a login that repeats a connection or
\* a username, a vote of the audience, and the forged messages the handlers
\* accept (a prompt or an answer from the audience, an answer for a prompt
\* that is not assigned, a vote for a prompt that is not active).  At most
\* MaxOffScript of these happen in one run.  A message a handler rejects
\* changes nothing in the gameState: it is a stuttering step.
AnsweredAll(p) ==
  \A k \in DOMAIN p.assignedPrompts : p.assignedPrompts[k].id \in DOMAIN p.answers

VotedAll(p) == \A q \in ActiveIds : q \in DOMAIN p.votesCast

PromptTurn(u) ==
  /\ u.role = "player"
  /\ \A j \in 1..(u.idx - 1) :
       \/ gameState.players[j].status = "PROMPT_SUBMITTED"
       \/ \E c \in BagToSet(calls) : c.kind = "prompt" /\ c.oid = gameState.players[j].oid

AnswerTurn(u) ==
  /\ u.role = "player"
  /\ \A j \in 1..(u.idx - 1) : AnsweredAll(gameState.players[j])

VoteTurn(vi) ==
  /\ ~VotedAll(gameState.players[vi])
  /\ \A j \in 1..(vi - 1) : VotedAll(gameState.players[j])

ScriptedPrompt(u) == PromptTurn(u)

ForgedPrompt(u) == u.role = "audience"

ScriptedAnswer(u, pid) ==
  /\ AnswerTurn(u)
  /\ LET p == gameState.players[u.idx]
     IN \E k \in DOMAIN p.assignedPrompts :
          /\ p.assignedPrompts[k].id = pid
          /\ pid \notin DOMAIN p.answers
          /\ \A m \in 1..(k - 1) : p.assignedPrompts[m].id \in DOMAIN p.answers

ForgedAnswer(u, pid) ==
  \/ u.role = "audience"
  \/ AnswerTurn(u) /\ pid \notin AssignedIds(u)

ScriptedVote(vi, pid, ti) ==
  /\ VoteTurn(vi)
  /\ pid \in ActiveIds
  /\ \A q \in ActiveIds : q < pid => q \in DOMAIN gameState.players[vi].votesCast
  /\ pid \in DOMAIN gameState.players[ti].answers
  /\ \A j \in 1..(ti - 1) :
       \/ gameState.players[j].username = gameState.players[vi].username
       \/ pid \notin DOMAIN gameState.players[j].answers

ForgedVote(vi, pid, ti) == VoteTurn(vi) /\ pid \notin ActiveIds

ScriptedAudienceVote(pid, ti) ==
  pid \in ActiveIds /\ pid \in DOMAIN gameState.players[ti].answers

\* the next connection to log in: connections log in once each, under a
\* username of their own, the first LobbySockets of them before the game
\* starts
FreshLogin(s, name) ==
  /\ s = name
  /\ s = env.socks + 1 + Cardinality({c \in BagToSet(calls) : c.kind = "login"})
  /\ gameState.stage = "JOINING" => s <= LobbySockets

\* a login off the script: a connection that is already logged in logs in
\* again, or a new connection logs in under a username that is in use
StrayLogin(s, name) ==
  /\ env.off < MaxOffScript
  /\ name <= env.socks
  /\ s <= env.socks + 1
  /\ \A c \in BagToSet(calls) : c.kind # "login"
  /\ (gameState.stage = "JOINING" /\ s > env.socks) => s <= LobbySockets

\* whether the model has to remember that connection s is gone: it has a
\* roster entry or a call in flight (any other id stands for some
\* connection that never logged in)
Known(s) ==
  \/ findUserBySocketId(gameState, s).role # "none"
  \/ \E c \in BagToSet(calls) : c.sock = s

\* the shuffles a `next` can draw: only the advance out of PROMPTS shuffles,
\* and only once every prompt is in
Shuffling == gameState.stage = "PROMPTS" /\ allPromptsSubmitted(gameState)
PlayerShuffles == IF Shuffling THEN shuffle(Len(gameState.players)) ELSE {<<>>}
PromptShuffles == IF Shuffling THEN shuffle(Len(RoundPrompts(gameState))) ELSE {<<>>}

\* ----------------------------------------------------------- actions
\* socket.on('login'): handleLogin up to its await of apiLogin
LoginRequest(s, name) ==
  /\ Live(s)
  /\ BagCardinality(calls) < MaxInFlight
  /\ FreshLogin(s, name) \/ StrayLogin(s, name)
  /\ calls' = calls (+) SetToBag({[kind |-> "login", sock |-> s, name |-> name,
                                   oid |-> 0, text |-> 0]})
  /\ env' = [env EXCEPT !.off = IF FreshLogin(s, name) THEN @ ELSE @ + 1]
  /\ UNCHANGED gameState

\* handleLogin from the return of apiLogin: ok is result.result, and a
\* thrown error is answered like a failed login
LoginReturn(c, ok) ==
  /\ BagIn(c, calls)
  /\ c.kind = "login"
  /\ calls' = calls (-) SetToBag({c})
  /\ gameState' = handleLogin(gameState, env.oids + 1, c.sock, c.name, ok).gs
  /\ env' = IF ok
            THEN [env EXCEPT !.oids = @ + 1, !.socks = IF c.sock > @ THEN c.sock ELSE @]
            ELSE env

\* socket.on('disconnect')
Disconnect(s) ==
  /\ Live(s)
  /\ Known(s)
  /\ env.off < MaxOffScript
  /\ gameState' = OnDisconnect(gameState, s).gs
  /\ env' = [env EXCEPT !.dead = @ \cup {s}, !.off = @ + 1]
  /\ UNCHANGED calls

\* socket.on('next')
NextEvent(s) ==
  /\ Live(s)
  /\ \E permP \in PlayerShuffles, permQ \in PromptShuffles :
       gameState' = OnNext(gameState, s, permP, permQ).gs
  /\ UNCHANGED <<calls, env>>

\* socket.on('prompt'): handlePrompt up to its await of apiPromptCreate
PromptRequest(s, len) ==
  /\ Live(s)
  /\ handlePrompt(gameState, s, len).ev = "none"
  /\ BagCardinality(calls) < MaxInFlight
  /\ LET u == findUserBySocketId(gameState, s)
     IN /\ ScriptedPrompt(u) \/ (ForgedPrompt(u) /\ env.off < MaxOffScript)
        /\ calls' = calls (+) SetToBag({[kind |-> "prompt", sock |-> s, name |-> 0,
                                         oid |-> UserOf(gameState, u).oid, text |-> len]})
        /\ env' = [env EXCEPT !.off = IF ScriptedPrompt(u) THEN @ ELSE @ + 1]
  /\ UNCHANGED gameState

\* handlePrompt from the return of apiPromptCreate: ok is result.result, and
\* a thrown error is answered like a failure
PromptReturn(c, ok) ==
  /\ BagIn(c, calls)
  /\ c.kind = "prompt"
  /\ calls' = calls (-) SetToBag({c})
  /\ gameState' = handlePromptResume(gameState, c.oid, c.text, ok).gs
  /\ UNCHANGED env

\* socket.on('answer'): the answers the environment sends and handleAnswer
\* accepts
Answer(s, pid, text) ==
  /\ gameState.stage = "ANSWERS"
  /\ Live(s)
  /\ LET u == findUserBySocketId(gameState, s)
         r == handleAnswer(gameState, s, pid, text)
     IN /\ ScriptedAnswer(u, pid) \/ (ForgedAnswer(u, pid) /\ env.off < MaxOffScript)
        /\ r.result
        /\ gameState' = r.gs
        /\ env' = [env EXCEPT !.off = IF ScriptedAnswer(u, pid) THEN @ ELSE @ + 1]
  /\ UNCHANGED calls

\* the connections that may send a vote now: those of the audience and that
\* of the player whose turn it is
Voters ==
  IF gameState.stage # "VOTING" THEN {}
  ELSE {s \in Sockets :
          LET u == findUserBySocketId(gameState, s)
          IN /\ u.role # "none"
             /\ LET vi == findPlayerByUsername(gameState, UserOf(gameState, u).username)
                IN vi # 0 => VoteTurn(vi)}

\* the connections that may send an answer now
Answerers ==
  IF gameState.stage # "ANSWERS" THEN {}
  ELSE {s \in Sockets : findUserBySocketId(gameState, s).role # "none"}

\* whether the environment sends this vote on the script (stock) or off it
VoteKind(s, pid, target) ==
  LET u == findUserBySocketId(gameState, s)
      ti == findPlayerByUsername(gameState, target)
      vi == IF u.role = "none" THEN 0
            ELSE findPlayerByUsername(gameState, UserOf(gameState, u).username)
  IN IF u.role = "none" \/ ti = 0 THEN "none"
     ELSE IF vi # 0
          THEN IF ScriptedVote(vi, pid, ti) THEN "stock"
               ELSE IF ForgedVote(vi, pid, ti) THEN "extra" ELSE "none"
          ELSE IF ScriptedAudienceVote(pid, ti) THEN "extra" ELSE "none"

\* socket.on('vote'): the votes the environment sends and handleVote accepts
Vote(s, pid, target) ==
  /\ gameState.stage = "VOTING"
  /\ Live(s)
  /\ LET kind == VoteKind(s, pid, target)
         r == handleVote(gameState, s, pid, target)
     IN /\ kind = "stock" \/ (kind = "extra" /\ env.off < MaxOffScript)
        /\ r.result
        /\ gameState' = r.gs
        /\ env' = [env EXCEPT !.off = IF kind = "stock" THEN @ ELSE @ + 1]
  /\ UNCHANGED calls

\* ------------------------------------------------------- specification
Init ==
  /\ gameState = [stage |-> "JOINING", round |-> 0, players |-> <<>>,
                  audience |-> <<>>, activePrompts |-> <<>>,
                  audienceVotes |-> EmptyMap]
  /\ calls = EmptyBag
  /\ env = [socks |-> 0, dead |-> {}, off |-> 0, oids |-> 0]

Next ==
  \/ \E s \in Sockets, name \in Usernames : LoginRequest(s, name)
  \/ \E c \in BagToSet(calls), ok \in BOOLEAN : LoginReturn(c, ok)
  \/ \E s \in Sockets : Disconnect(s)
  \/ \E s \in Sockets : NextEvent(s)
  \/ \E s \in Sockets, len \in PromptLens : PromptRequest(s, len)
  \/ \E c \in BagToSet(calls), ok \in BOOLEAN : PromptReturn(c, ok)
  \/ \E s \in Answerers, pid \in PromptIds, text \in AnswerTexts : Answer(s, pid, text)
  \/ \E s \in Voters, pid \in PromptIds, target \in Usernames : Vote(s, pid, target)

Spec == Init /\ [][Next]_vars

\* ------------------------------------------- the assignment on its own
\* The inputs of assignPromptsToPlayers: a game in stage PROMPTS with 2 to
\* MaxPlayers players, under any usernames, each of whom has submitted one
\* prompt; the step draws both shuffles and assigns.
AssignRosters == UNION {[1..n -> 1..n] : n \in 2..MaxPlayers}

AssignInput(names) ==
  [stage |-> "PROMPTS", round |-> 1,
   players |-> [i \in DOMAIN names |->
                  [NewPlayer(i, i, names[i], i = 1) EXCEPT
                     !.status = "PROMPT_SUBMITTED", !.prompt = MinPromptLen]],
   audience |-> <<>>, activePrompts |-> <<>>, audienceVotes |-> EmptyMap]

InitAssign ==
  /\ \E names \in AssignRosters :
       /\ gameState = AssignInput(names)
       /\ env = [socks |-> Len(names), dead |-> {}, off |-> 0, oids |-> Len(names)]
  /\ calls = EmptyBag

AssignStep(permP, permQ) ==
  /\ gameState.stage = "PROMPTS"
  /\ gameState' = startAnswerStage(gameState, permP, permQ)
  /\ UNCHANGED <<calls, env>>

NextAssign == \E permP \in PlayerShuffles, permQ \in PromptShuffles : AssignStep(permP, permQ)

SpecAssign == InitAssign /\ [][NextAssign]_vars

\* --------------------------------- the prompt stage of a round on its own
\* The prompt stage of the first round, entered by 1 to LobbySockets players
\* under usernames of their own.  Any player may send a prompt at any time,
\* also while an earlier one of its own is still with the backend, up to
\* MaxPromptCalls calls awaited at one time; the admin may send `next`.
MaxPromptCalls == 2

PromptTexts == {MinPromptLen, MaxPromptLen}

LobbyOf(n) ==
  [stage |-> "JOINING", round |-> 0,
   players |-> [i \in 1..n |-> NewPlayer(i, i, i, i = 1)],
   audience |-> <<>>, activePrompts |-> <<>>, audienceVotes |-> EmptyMap]

InitPrompt ==
  /\ \E n \in 1..LobbySockets :
       /\ gameState = handleStartGame(LobbyOf(n), 1).gs
       /\ env = [socks |-> n, dead |-> {}, off |-> 0, oids |-> n]
  /\ calls = EmptyBag

\* socket.on('prompt') for a message that passes the checks of handlePrompt:
\* the handler goes on to await apiPromptCreate
PromptRequestAny(s, len) ==
  /\ handlePrompt(gameState, s, len).ev = "none"
  /\ BagCardinality(calls) < MaxPromptCalls
  /\ calls' = calls (+) SetToBag({[kind |-> "prompt", sock |-> s, name |-> 0,
                                   oid |-> UserOf(gameState, findUserBySocketId(gameState, s)).oid,
                                   text |-> len]})
  /\ UNCHANGED <<gameState, env>>

NextPrompt ==
  \/ \E s \in Sockets, len \in PromptTexts : PromptRequestAny(s, len)
  \/ \E c \in BagToSet(calls), ok \in BOOLEAN : PromptReturn(c, ok)
  \/ \E s \in Sockets : NextEvent(s)

SpecPrompt == InitPrompt /\ [][NextPrompt]_vars

\* ------------------------------------------------- the lobby on its own
\* The lobby with one connection more than the table seats: every
\* connection logs in once, under a username of its own, up to MaxLogins
\* logins awaiting the identity service at one time and returning in any
\* order; a connection may drop and the admin may start the game while
\* logins are still awaited.
MaxLogins == 2

LobbyConns == 1..(MaxPlayers + 1)

\* socket.on('login') of a connection that has not logged in yet
LoginRequestAny(s) ==
  /\ Live(s)
  /\ ~Known(s)
  /\ BagCardinality(calls) < MaxLogins
  /\ calls' = calls (+) SetToBag({[kind |-> "login", sock |-> s, name |-> s,
                                   oid |-> 0, text |-> 0]})
  /\ UNCHANGED <<gameState, env>>

NextLobby ==
  \/ \E s \in LobbyConns : LoginRequestAny(s)
  \/ \E c \in BagToSet(calls), ok \in BOOLEAN : LoginReturn(c, ok)
  \/ \E s \in LobbyConns : Disconnect(s)
  \/ \E s \in LobbyConns : NextEvent(s)

SpecLobby == Init /\ [][NextLobby]_vars

\* ------------------------------------------- a whole game played to plan
\* A lobby of 1 to MaxPlayers players under usernames of their own starts a
\* game and plays it by the book: nobody joins late or disconnects, the
\* backend accepts every prompt, every player sends one valid prompt,
\* answers the prompts assigned to it and votes once on every active
\* prompt, and the admin sends `next`.  The players take their turns in
\* roster order.
InitPlay ==
  /\ \E n \in 1..MaxPlayers :
       /\ gameState = LobbyOf(n)
       /\ env = [socks |-> n, dead |-> {}, off |-> MaxOffScript, oids |-> n]
  /\ calls = EmptyBag

\* the answer a voter picks on prompt pid: that of the first other player
\* who answered it, else (nobody else answered) the first other player
PlayTarget(vi, pid) ==
  LET others == (DOMAIN gameState.players) \ {vi}
      answered == {j \in others : pid \in DOMAIN gameState.players[j].answers}
  IN IF answered # {} THEN MinOf(answered) ELSE MinOf(others)

\* socket.on('vote'): the player whose turn it is votes on the first active
\* prompt it has not voted on
PlayVote(s) ==
  /\ gameState.stage = "VOTING"
  /\ LET u == findUserBySocketId(gameState, s)
     IN /\ u.role = "player"
        /\ VoteTurn(u.idx)
        /\ Len(gameState.players) > 1
        /\ LET pid == MinOf(ActiveIds \ DOMAIN gameState.players[u.idx].votesCast)
               target == gameState.players[PlayTarget(u.idx, pid)].username
           IN gameState' = handleVote(gameState, s, pid, target).gs
  /\ UNCHANGED <<calls, env>>

NextPlay ==
  \/ \E s \in Sockets : NextEvent(s)
  \/ \E s \in Sockets : PromptRequest(s, MinPromptLen)
  \/ \E c \in BagToSet(calls) : PromptReturn(c, TRUE)
  \/ \E s \in Answerers, pid \in PromptIds : Answer(s, pid, 1)
  \/ \E s \in Sockets : PlayVote(s)

\* every participant goes on playing: as long as a message is due or a
\* call to the backend is awaited, one of them is sent or returns
FairPlay == WF_vars(NextPlay)

SpecPlay == InitPlay /\ [][NextPlay]_vars /\ FairPlay

\* --------------------------------------------------------- properties
\* C1: no player's assignedPrompts holds a prompt whose author is that
\* player's username, whatever the number of players (2 up to the cap), the
\* usernames and the two shuffle outcomes.
C1_NoOwnPrompt ==
  \A i \in DOMAIN gameState.players :
    \A k \in DOMAIN gameState.players[i].assignedPrompts :
      gameState.players[i].assignedPrompts[k].author # gameState.players[i].username

\* a full table of distinct usernames has gone through the assignment and
\* every player was handed a prompt
C1_Witness ==
  /\ gameState.stage = "ANSWERS"
  /\ Len(gameState.players) = MaxPlayers
  /\ \A i, j \in DOMAIN gameState.players :
       gameState.players[i].username = gameState.players[j].username => i = j
  /\ \A i \in DOMAIN gameState.players : gameState.players[i].assignedPrompts # <<>>

\* s is the connection of a player with isAdmin = true
AdminConnection(s) ==
  \E i \in DOMAIN gameState.players :
    gameState.players[i].socketId = s /\ gameState.players[i].isAdmin

\* the failure reply of a `next` that leaves the gameState as it is
NextRejected == Res(gameState, "nextResult", FALSE, FALSE)

\* the replies a `next` from connection s can get in the current state, one
\* per outcome of the shuffles
NextOutcomes(s) ==
  {OnNext(gameState, s, permP, permQ) : permP \in PlayerShuffles, permQ \in PromptShuffles}

\* C2: as soon as there is a player, exactly one player has isAdmin = true.
C2_ExactlyOneAdmin ==
  gameState.players # <<>> =>
    Cardinality({i \in DOMAIN gameState.players : gameState.players[i].isAdmin}) = 1

\* C3: a `next` from a connection that is not the connection of an admin
\* player gets a failure nextResult and leaves the whole gameState as it
\* is, in every stage.
C3_NonAdminNextRejected ==
  \A s \in Sockets :
    ~AdminConnection(s) =>
      \A r \in NextOutcomes(s) : r = NextRejected

\* a non-admin player, an audience member and a connection without roster
\* entry are turned away at a moment when the admin's `next` goes through
C3_Witness ==
  /\ gameState.stage = "PROMPTS"
  /\ \E a, b, c, d \in Sockets :
       /\ ~AdminConnection(a) /\ findUserBySocketId(gameState, a).role = "player"
       /\ findUserBySocketId(gameState, b).role = "audience"
       /\ findUserBySocketId(gameState, c).role = "none"
       /\ NextOutcomes(a) \cup NextOutcomes(b) \cup NextOutcomes(c) = {NextRejected}
       /\ AdminConnection(d)
       /\ \E r \in NextOutcomes(d) : r.result /\ r.gs.stage = "ANSWERS"

\* the stage changes that may happen when the round counter is r
StageEdges(r) ==
  {<<"JOINING", "PROMPTS">>, <<"PROMPTS", "ANSWERS">>, <<"ANSWERS", "VOTING">>,
   <<"VOTING", "SCORING">>, <<"VOTING", "GAME_OVER">>}
  \cup (IF r < 3 THEN {<<"SCORING", "PROMPTS">>} ELSE {<<"SCORING", "GAME_OVER">>})

\* C4: the stage changes along the listed edges only, and only in a step
\* that is a `next` from the connection of an admin player.
C4_StageEdges ==
  [][gameState'.stage # gameState.stage =>
       /\ <<gameState.stage, gameState'.stage>> \in StageEdges(gameState.round)
       /\ \E s \in Sockets : AdminConnection(s) /\ NextEvent(s)]_vars

\* a second round has begun: the game went once round the cycle
C4_Witness == gameState.stage = "ANSWERS" /\ gameState.round = 2

\* C5: round starts at 0, goes up by exactly 1 in every step that enters
\* PROMPTS, and stays as it is in every other step.
C5_RoundCounter ==
  /\ gameState.round = 0
  /\ [][gameState'.round =
          IF gameState'.stage = "PROMPTS" /\ gameState.stage # "PROMPTS"
          THEN gameState.round + 1 ELSE gameState.round]_vars

\* the third round has been entered
C5_Witness == gameState.stage = "PROMPTS" /\ gameState.round = 3

\* C6: in stage PROMPTS a `next` of the admin succeeds, the stage becoming
\* ANSWERS, if and only if every player has status PROMPT_SUBMITTED; when
\* some player has not, the reply is a failure and nothing is changed.
C6_PromptsGate ==
  gameState.stage = "PROMPTS" =>
    \A s \in Sockets : AdminConnection(s) =>
      \A r \in NextOutcomes(s) :
        IF \A i \in DOMAIN gameState.players :
             gameState.players[i].status = "PROMPT_SUBMITTED"
        THEN r.ev = "nextResult" /\ r.result /\ r.gs.stage = "ANSWERS"
        ELSE r = NextRejected

\* the admin is connected in stage PROMPTS, every player, more than one, has
\* submitted, and the admin's `next` leads to ANSWERS with prompts assigned
C6_Witness ==
  /\ gameState.stage = "PROMPTS"
  /\ Len(gameState.players) > 1
  /\ \A i \in DOMAIN gameState.players : gameState.players[i].status = "PROMPT_SUBMITTED"
  /\ \E s \in Sockets :
       /\ AdminConnection(s) /\ Live(s)
       /\ \E r \in NextOutcomes(s) :
            /\ r.result /\ r.gs.stage = "ANSWERS"
            /\ \A i \in DOMAIN r.gs.players : r.gs.players[i].assignedPrompts # <<>>

\* every player has a prompt assigned and an answer for each assigned prompt
EveryoneAnswered ==
  \A i \in DOMAIN gameState.players :
    /\ gameState.players[i].assignedPrompts # <<>>
    /\ \A k \in DOMAIN gameState.players[i].assignedPrompts :
         gameState.players[i].assignedPrompts[k].id \in DOMAIN gameState.players[i].answers

\* C7: in stage ANSWERS a `next` of the admin succeeds, the stage becoming
\* VOTING and every player WAITING_FOR_VOTES, if and only if every player
\* has a prompt assigned and an answer for each assigned prompt; otherwise
\* the reply is a failure and nothing is changed.
C7_AnswersGate ==
  gameState.stage = "ANSWERS" =>
    \A s \in Sockets : AdminConnection(s) =>
      \A r \in NextOutcomes(s) :
        IF EveryoneAnswered
        THEN /\ r.ev = "nextResult" /\ r.result /\ r.gs.stage = "VOTING"
             /\ \A i \in DOMAIN r.gs.players : r.gs.players[i].status = "WAITING_FOR_VOTES"
        ELSE r = NextRejected

\* the admin is connected in stage ANSWERS, everyone has answered, and the
\* admin's `next` leads to VOTING
C7_Witness ==
  /\ gameState.stage = "ANSWERS"
  /\ EveryoneAnswered
  /\ \E s \in Sockets :
       /\ AdminConnection(s) /\ Live(s)
       /\ \E r \in NextOutcomes(s) : r.result /\ r.gs.stage = "VOTING"

\* C8: in stage VOTING a `next` of the admin succeeds only if every player
\* has a vote recorded for every prompt of activePrompts.
C8_VotingGate ==
  gameState.stage = "VOTING" =>
    \A s \in Sockets : AdminConnection(s) =>
      \A r \in NextOutcomes(s) :
        r.result =>
          \A i \in DOMAIN gameState.players :
            \A q \in ActiveIds : q \in DOMAIN gameState.players[i].votesCast

C10_GameOverTerminal ==
  gameState.stage = "GAME_OVER" =>
    \A s \in Sockets :
      \A r \in NextOutcomes(s) :
        /\ r.ev = "nextResult" /\ ~r.result
        /\ r.gs.stage = "GAME_OVER"
        /\ r.gs.round = gameState.round
        /\ \A i \in DOMAIN gameState.players :
             r.gs.players[i].score = gameState.players[i].score

\* the game is over, the admin is still connected and its `next` is refused
C10_Witness ==
  /\ gameState.stage = "GAME_OVER"
  /\ \E s \in Sockets :
       /\ AdminConnection(s) /\ Live(s)
       /\ \E r \in NextOutcomes(s) : ~r.result /\ r.gs = gameState

\* the audience tally of a username, summed over the prompts
AudienceTally(name) ==
  SumOver(gameState.audienceVotes,
          {k \in DOMAIN gameState.audienceVotes : k[2] = name})

\* C11: the step that scores the round sets every player's roundScore to
\* round * roundVotes * 100 plus 50 times the audience tally of the player's
\* username, summed over the prompts, and adds exactly that to the score.
C11_RoundScore ==
  gameState.stage = "VOTING" =>
    \A s \in Sockets :
      \A r \in NextOutcomes(s) :
        r.result =>
          \A i \in DOMAIN gameState.players :
            /\ r.gs.players[i].roundScore =
                 gameState.round * gameState.players[i].roundVotes * 100
                   + 50 * AudienceTally(gameState.players[i].username)
            /\ r.gs.players[i].score =
                 gameState.players[i].score + r.gs.players[i].roundScore

\* round 2 is scored for a player who carries points of round 1, has votes
\* of the players and a vote of the audience
C11_Witness ==
  /\ gameState.stage = "VOTING"
  /\ gameState.round = 2
  /\ \E s \in Sockets :
       /\ AdminConnection(s) /\ Live(s)
       /\ \E r \in NextOutcomes(s), i \in DOMAIN gameState.players :
            /\ r.result
            /\ gameState.players[i].score > 0
            /\ gameState.players[i].roundVotes > 0
            /\ AudienceTally(gameState.players[i].username) = 1
            /\ r.gs.players[i].roundScore =
                 200 * gameState.players[i].roundVotes + 50
            /\ r.gs.players[i].score = gameState.players[i].score + r.gs.players[i].roundScore

\* C12: the score of a player who stays connected changes only in the step
\* that successfully advances out of VOTING (a `next` of the admin that
\* leaves VOTING for SCORING or GAME_OVER); every other step, the re-entry
\* into PROMPTS included, leaves it as it is, and no step lowers it.
C12_ScoreFrame ==
  [][\A i \in DOMAIN gameState.players :
       \A j \in DOMAIN gameState'.players :
         gameState.players[i].oid = gameState'.players[j].oid =>
           /\ gameState'.players[j].score >= gameState.players[i].score
           /\ gameState'.players[j].score # gameState.players[i].score =>
                /\ gameState.stage = "VOTING"
                /\ gameState'.stage \in {"SCORING", "GAME_OVER"}
                /\ \E s \in Sockets : AdminConnection(s) /\ NextEvent(s)]_vars

\* the prompt stage of a later round has been entered by a player who kept
\* the points of the round before
C12_Witness ==
  /\ gameState.stage = "PROMPTS"
  /\ gameState.round > 1
  /\ \E i \in DOMAIN gameState.players :
       /\ gameState.players[i].score > 0
       /\ gameState.players[i].roundScore = 0

\* the prompt calls still awaited for the roster object of player i
PendingPrompts(i) ==
  {c \in BagToSet(calls) : c.kind = "prompt" /\ c.oid = gameState.players[i].oid}

\* the outcome of handlePrompt when the awaited call c returns success
PromptAccepted(c) == handlePromptResume(gameState, c.oid, c.text, TRUE)

\* C13: at most one prompt submission of a player is recorded and answered
\* with result=true in a round: once a player's prompt of the round is in,
\* no call still awaited for that player is accepted when it returns.
C13_OncePerRound ==
  gameState.stage = "PROMPTS" =>
    \A i \in DOMAIN gameState.players :
      gameState.players[i].status = "PROMPT_SUBMITTED" =>
        \A c \in PendingPrompts(i) : ~PromptAccepted(c).result

\* C14: a prompt call that returns after the session has changed under it
\* (the stage is no longer PROMPTS, or the player's status is already
\* PROMPT_SUBMITTED) is discarded: the player's prompt and status are not
\* written.
C14_StaleDiscarded ==
  \A i \in DOMAIN gameState.players :
    (gameState.stage # "PROMPTS" \/ gameState.players[i].status = "PROMPT_SUBMITTED") =>
      \A c \in PendingPrompts(i) :
        /\ PromptAccepted(c).gs.players[i].prompt = gameState.players[i].prompt
        /\ PromptAccepted(c).gs.players[i].status = gameState.players[i].status

\* the outcome of handlePrompt when the awaited call c throws or returns
\* result=false
PromptRefused(c) == handlePromptResume(gameState, c.oid, c.text, FALSE)

\* C15: when the backend call of a prompt submission fails, prompt and
\* status of the submitter (and the rest of the gameState) stay as they
\* are, the reply is a promptResult with result=false and nothing is
\* broadcast.
C15_FailedCallRecordsNothing ==
  \A c \in BagToSet(calls) :
    c.kind = "prompt" =>
      /\ PromptRefused(c).ev = "promptResult"
      /\ ~PromptRefused(c).result
      /\ ~PromptRefused(c).bcast
      /\ PromptRefused(c).gs = gameState

\* a player's prompt is with the backend; were the call to fail, the player
\* would be refused, left without prompt, and free to submit again
C15_Witness ==
  /\ gameState.stage = "PROMPTS"
  /\ \E i \in DOMAIN gameState.players :
       /\ gameState.players[i].status = "WAITING_FOR_PROMPTS"
       /\ \E c \in PendingPrompts(i) :
            /\ ~PromptRefused(c).result
            /\ PromptRefused(c).gs.players[i].prompt = NoPrompt
            /\ PromptPasses(PromptRefused(c).gs, c.sock, c.text)

\* C16: an answer is accepted only for a prompt assigned to the player, so
\* the keys of every player's answers are ids of its assignedPrompts.
C16_AnswersWithinAssigned ==
  \A i \in DOMAIN gameState.players :
    DOMAIN gameState.players[i].answers \subseteq
      {gameState.players[i].assignedPrompts[k].id :
         k \in DOMAIN gameState.players[i].assignedPrompts}

\* C17: right after the step from PROMPTS to ANSWERS every player has one
\* or two prompts assigned, whatever the number of players and the shuffle
\* outcomes (each player, under a username of its own, having written one
\* prompt).
C17_OneOrTwoAssigned ==
  (/\ gameState.stage = "ANSWERS"
   /\ \A i, j \in DOMAIN gameState.players :
        gameState.players[i].username = gameState.players[j].username => i = j) =>
    \A i \in DOMAIN gameState.players :
      Len(gameState.players[i].assignedPrompts) \in {1, 2}

\* the failure reply of a vote that leaves the gameState as it is
VoteRejected == Res(gameState, "voteResult", FALSE, FALSE)

\* the promptIds on which the player behind user u has a vote recorded,
\* in its own votesCast or in that of the player its votes are booked to
VotedOn(u) ==
  LET vi == findPlayerByUsername(gameState, UserOf(gameState, u).username)
  IN (DOMAIN gameState.players[u.idx].votesCast)
       \cup (IF vi = 0 THEN {} ELSE DOMAIN gameState.players[vi].votesCast)

\* C18: in stage VOTING a vote of a player for a promptId the player has
\* already voted on (0 included) is answered with result=false and nothing
\* changes, whoever the target: the votesCast entry keeps its first target
\* and no roundVotes moves.
C18_SecondVoteRejected ==
  gameState.stage = "VOTING" =>
    \A s \in Sockets :
      findUserBySocketId(gameState, s).role = "player" =>
        \A pid \in VotedOn(findUserBySocketId(gameState, s)) :
          \A target \in Usernames :
            handleVote(gameState, s, pid, target) = VoteRejected

\* a player has voted on prompt 0 and has another prompt still open: a vote
\* for the open prompt would be taken, a second one for prompt 0, for
\* another player than the first time, is refused
C18_Witness ==
  /\ gameState.stage = "VOTING"
  /\ \E s \in Sockets :
       LET u == findUserBySocketId(gameState, s)
       IN /\ u.role = "player"
          /\ Live(s)
          /\ 0 \in DOMAIN gameState.players[u.idx].votesCast
          /\ \E target \in Usernames, pid \in ActiveIds :
               /\ findPlayerByUsername(gameState, target) # 0
               /\ target # gameState.players[u.idx].username
               /\ target # gameState.players[u.idx].votesCast[0]
               /\ handleVote(gameState, s, pid, target).result
               /\ handleVote(gameState, s, 0, target) = VoteRejected

\* C19: in stage VOTING every vote of an audience member for a target that
\* is a player (other than a namesake of the voter, whose case is the
\* self-vote) is accepted and adds exactly one to the tally of that prompt
\* and target, however often the member has voted before; it changes no
\* player's votesCast or roundVotes.
C19_AudienceVoteCounted ==
  gameState.stage = "VOTING" =>
    \A s \in Sockets :
      findUserBySocketId(gameState, s).role = "audience" =>
        \A pid \in PromptIds :
          \A target \in Usernames :
            (/\ findPlayerByUsername(gameState, target) # 0
             /\ target # UserOf(gameState, findUserBySocketId(gameState, s)).username) =>
              /\ handleVote(gameState, s, pid, target).ev = "voteResult"
              /\ handleVote(gameState, s, pid, target).result
              /\ <<pid, target>> \in DOMAIN handleVote(gameState, s, pid, target).gs.audienceVotes
              /\ handleVote(gameState, s, pid, target).gs.audienceVotes[<<pid, target>>] =
                   IF <<pid, target>> \in DOMAIN gameState.audienceVotes
                   THEN gameState.audienceVotes[<<pid, target>>] + 1 ELSE 1
              /\ handleVote(gameState, s, pid, target).gs.players = gameState.players

\* C20: a vote whose target is the voter's own username is answered with
\* result=false and changes nothing, whatever the promptId, the stage, and
\* what the voter has answered or voted before.
C20_SelfVoteRejected ==
  \A s \in Sockets :
    findUserBySocketId(gameState, s).role # "none" =>
      \A pid \in PromptIds :
        handleVote(gameState, s, pid,
                   UserOf(gameState, findUserBySocketId(gameState, s)).username) = VoteRejected

\* in stage VOTING a player has voted on prompt 0 and not yet on prompt 2:
\* a vote on prompt 2 for another player would be taken, one for the
\* player's own username is refused
C20_Witness ==
  /\ gameState.stage = "VOTING"
  /\ \E s \in Sockets :
       LET u == findUserBySocketId(gameState, s)
       IN /\ u.role = "player"
          /\ Live(s)
          /\ 2 \in ActiveIds
          /\ 0 \in DOMAIN gameState.players[u.idx].votesCast
          /\ 2 \notin DOMAIN gameState.players[u.idx].votesCast
          /\ \E target \in Usernames : handleVote(gameState, s, 2, target).result
          /\ handleVote(gameState, s, 2, gameState.players[u.idx].username) = VoteRejected

\* the login calls still awaited
PendingLogins == {c \in BagToSet(calls) : c.kind = "login"}

\* the outcome of handleLogin when the awaited call c returns success
LoginAccepted(c) == handleLogin(gameState, env.oids + 1, c.sock, c.name, TRUE)

\* C21: a login that succeeds adds the user to players if and only if, when
\* the identity call returns, the stage is JOINING and there are fewer than
\* 4 players, and to audience otherwise; players never has more than 4
\* entries, also with several logins awaited at once.
C21_PlayersCap ==
  /\ Len(gameState.players) <= 4
  /\ \A c \in PendingLogins :
       IF gameState.stage = "JOINING" /\ Len(gameState.players) < 4
       THEN /\ Len(LoginAccepted(c).gs.players) = Len(gameState.players) + 1
            /\ LoginAccepted(c).gs.players[Len(gameState.players) + 1].username = c.name
            /\ LoginAccepted(c).gs.audience = gameState.audience
       ELSE /\ Len(LoginAccepted(c).gs.audience) = Len(gameState.audience) + 1
            /\ LoginAccepted(c).gs.audience[Len(gameState.audience) + 1].username = c.name
            /\ LoginAccepted(c).gs.players = gameState.players

\* the table is full in stage JOINING while the login of one more
\* connection is awaited: it would go to the audience
C21_Witness ==
  /\ gameState.stage = "JOINING"
  /\ Len(gameState.players) = 4
  /\ Cardinality(PendingLogins) = 1
  /\ \A c \in PendingLogins :
       /\ LoginAccepted(c).result
       /\ Len(LoginAccepted(c).gs.players) = 4
       /\ Len(LoginAccepted(c).gs.audience) = Len(gameState.audience) + 1

\* C22: every entry of players and of audience belongs to a connection that
\* is live, whatever the order of the login, the return of the identity
\* call and the disconnect of a connection.
C22_EntriesAreLive ==
  /\ \A i \in DOMAIN gameState.players : Live(gameState.players[i].socketId)
  /\ \A i \in DOMAIN gameState.audience : Live(gameState.audience[i].socketId)

\* C23: no two entries of players have the same username, and no username
\* is held by a player and by an audience member.
C23_UniqueUsernames ==
  /\ \A i, j \in DOMAIN gameState.players :
       gameState.players[i].username = gameState.players[j].username => i = j
  /\ \A i \in DOMAIN gameState.players :
       \A j \in DOMAIN gameState.audience :
         gameState.players[i].username # gameState.audience[j].username

\* the entries of roster that are not of connection s, in roster order
Others(roster, s) ==
  LET kept == {i \in DOMAIN roster : roster[i].socketId # s}
  IN [k \in 1..Cardinality(kept) |->
        roster[CHOOSE i \in kept : Cardinality({j \in kept : j < i}) = k - 1]]

\* C24: a disconnect, in any stage, removes the entries of the connection
\* from players and audience and nothing else: the other entries, the
\* stage, the round and activePrompts stay as they are, and with no entry
\* for the connection the gameState is unchanged.
C24_DisconnectFrame ==
  \A s \in Sockets :
    /\ OnDisconnect(gameState, s).gs.players = Others(gameState.players, s)
    /\ OnDisconnect(gameState, s).gs.audience = Others(gameState.audience, s)
    /\ OnDisconnect(gameState, s).gs.stage = gameState.stage
    /\ OnDisconnect(gameState, s).gs.round = gameState.round
    /\ OnDisconnect(gameState, s).gs.activePrompts = gameState.activePrompts
    /\ findUserBySocketId(gameState, s).role = "none" =>
         OnDisconnect(gameState, s).gs = gameState

\* in the middle of a round, with answers given: the disconnect of a player
\* would remove that one entry of three, the disconnect of the audience
\* member its entry only
C24_Witness ==
  /\ gameState.stage = "ANSWERS"
  /\ Len(gameState.players) = 3
  /\ \E i \in DOMAIN gameState.players : gameState.players[i].answers # EmptyMap
  /\ \E s, t \in Sockets :
       /\ findUserBySocketId(gameState, s).role = "player"
       /\ Len(OnDisconnect(gameState, s).gs.players) = 2
       /\ OnDisconnect(gameState, s).gs.audience = gameState.audience
       /\ findUserBySocketId(gameState, t).role = "audience"
       /\ OnDisconnect(gameState, t).gs.audience = <<>>
       /\ OnDisconnect(gameState, t).gs.players = gameState.players

\* C25: every `next` that enters PROMPTS, from JOINING or from SCORING,
\* leaves activePrompts and the audience tally empty and every player with
\* status WAITING_FOR_PROMPTS, no prompt, nothing assigned, no answers, no
\* votes cast, roundVotes 0 and roundScore 0.
C25_RoundReset ==
  \A s \in Sockets :
    \A r \in NextOutcomes(s) :
      (r.gs.stage = "PROMPTS" /\ gameState.stage # "PROMPTS") =>
        /\ r.gs.activePrompts = <<>>
        /\ DOMAIN r.gs.audienceVotes = {}
        /\ Len(r.gs.players) = Len(gameState.players)
        /\ \A i \in DOMAIN r.gs.players :
             /\ r.gs.players[i].status = "WAITING_FOR_PROMPTS"
             /\ r.gs.players[i].prompt = NoPrompt
             /\ r.gs.players[i].assignedPrompts = <<>>
             /\ DOMAIN r.gs.players[i].answers = {}
             /\ DOMAIN r.gs.players[i].votesCast = {}
             /\ r.gs.players[i].roundVotes = 0
             /\ r.gs.players[i].roundScore = 0

\* the scores of a round with prompts, answers, votes and an audience vote
\* are on show, and the admin's `next` starts the next round
C25_Witness ==
  /\ gameState.stage = "SCORING"
  /\ gameState.activePrompts # <<>>
  /\ DOMAIN gameState.audienceVotes # {}
  /\ \E i \in DOMAIN gameState.players :
       /\ gameState.players[i].roundVotes > 0
       /\ gameState.players[i].roundScore > 0
       /\ gameState.players[i].prompt # NoPrompt
       /\ DOMAIN gameState.players[i].votesCast # {}
  /\ \E s \in Sockets :
       /\ AdminConnection(s) /\ Live(s)
       /\ \E r \in NextOutcomes(s) :
            /\ r.result /\ r.gs.stage = "PROMPTS"
            /\ r.gs.round = gameState.round + 1
            /\ DOMAIN r.gs.audienceVotes = {}

\* what the handlers other than `next` would leave in the current state:
\* the return of every awaited call with success, every answer, every vote
\* and every disconnect
OtherOutcomes ==
  {LoginAccepted(c) : c \in PendingLogins}
    \cup {PromptAccepted(c) : c \in {d \in BagToSet(calls) : d.kind = "prompt"}}
    \cup {handleAnswer(gameState, s, pid, 1) : s \in Sockets, pid \in PromptIds}
    \cup {handleVote(gameState, s, pid, target) :
            s \in Sockets, pid \in PromptIds, target \in Usernames}
    \cup {OnDisconnect(gameState, s) : s \in Sockets}

\* C26: every event that changes the gameState or is answered with
\* result=true (a join, an accepted prompt, answer or vote, a stage
\* transition, a disconnect) broadcasts the gameState, and a `next` that is
\* rejected gets a private nextResult only, with no broadcast.
C26_Broadcasts ==
  /\ \A s \in Sockets :
       \A r \in NextOutcomes(s) :
         /\ r.ev = "nextResult"
         /\ r.result => r.bcast
         /\ ~r.result => (~r.bcast /\ r.gs = gameState)
  /\ \A r \in OtherOutcomes : (r.result \/ r.gs # gameState) => r.bcast

\* in stage VOTING with votes missing: the admin's `next` is rejected in
\* private, the vote of a player would be taken and broadcast, and so would
\* the disconnect of a player
C26_Witness ==
  /\ gameState.stage = "VOTING"
  /\ \E a, s \in Sockets :
       /\ AdminConnection(a) /\ Live(a)
       /\ NextOutcomes(a) = {NextRejected}
       /\ Live(s)
       /\ \E pid \in ActiveIds, target \in Usernames :
            /\ handleVote(gameState, s, pid, target).result
            /\ handleVote(gameState, s, pid, target).bcast
       /\ OnDisconnect(gameState, s).gs # gameState
       /\ OnDisconnect(gameState, s).bcast

\* C27: the payload of a broadcast carries the connection identifier of no
\* participant in its players and audience entries, and it does not carry
\* the audience vote tally.
C27_NoConnectionIds ==
  /\ \A i \in DOMAIN updateAll(gameState).players :
       updateAll(gameState).players[i].id # gameState.players[i].socketId
  /\ \A i \in DOMAIN updateAll(gameState).audience :
       updateAll(gameState).audience[i].id # gameState.audience[i].socketId
  /\ "audienceVotes" \notin DOMAIN updateAll(gameState)

\* C28: in every broadcast the ranks of the n players are the numbers 1..n,
\* each once; a player with a higher score has a smaller rank, and players
\* of equal score are ranked in the order in which they joined.
C28_Ranks ==
  LET pub == updateAll(gameState).players
  IN /\ {pub[i].rank : i \in DOMAIN pub} = 1..Len(pub)
     /\ \A i, j \in DOMAIN pub :
          /\ pub[i].score > pub[j].score => pub[i].rank < pub[j].rank
          /\ (pub[i].score = pub[j].score /\ i < j) => pub[i].rank < pub[j].rank

\* C29: an audience member never authors a prompt and never answers: no
\* audience entry ever carries a prompt, an answer or a status other than
\* the two audience statuses.
C29_AudienceOnlyWatches ==
  \A i \in DOMAIN gameState.audience :
    /\ gameState.audience[i].prompt = NoPrompt
    /\ DOMAIN gameState.audience[i].answers = {}
    /\ gameState.audience[i].status \in {"AUDIENCE", "AUDIENCE_WAITING"}

\* the players that have the prompt with id q among their assignedPrompts
Holders(q) ==
  {i \in DOMAIN gameState.players :
     \E k \in DOMAIN gameState.players[i].assignedPrompts :
       gameState.players[i].assignedPrompts[k].id = q}

\* C30: with an even number N of players every player gets at most one
\* prompt, every prompt goes to at most one pair of players, and there are
\* at most N (player, prompt) edges in all.
C30_EvenPairs ==
  (gameState.stage = "ANSWERS" /\ Len(gameState.players) % 2 = 0) =>
    /\ \A i \in DOMAIN gameState.players :
         Len(gameState.players[i].assignedPrompts) <= 1
    /\ \A k \in DOMAIN gameState.activePrompts :
         Cardinality(Holders(gameState.activePrompts[k].id)) <= 2
    /\ Cardinality({<<i, q>> \in (DOMAIN gameState.players) \X ActiveIds : i \in Holders(q)})
         <= Len(gameState.players)

\* C31: with an odd number N of players every player gets at most two
\* prompts and never the same prompt twice, and every prompt goes to at
\* most one pair of players.
C31_OddCycle ==
  (gameState.stage = "ANSWERS" /\ Len(gameState.players) % 2 = 1) =>
    /\ \A i \in DOMAIN gameState.players :
         LET a == gameState.players[i].assignedPrompts
         IN /\ Len(a) <= 2
            /\ \A k, m \in DOMAIN a : a[k].id = a[m].id => k = m
    /\ \A k \in DOMAIN gameState.activePrompts :
         Cardinality(Holders(gameState.activePrompts[k].id)) <= 2

\* the answer texts a connection may send (see Trim)
AnswerInputs == 0..4

C33_ActivePromptsStages ==
  gameState.stage \in {"JOINING", "PROMPTS", "GAME_OVER"} =>
    gameState.activePrompts = <<>>

\* C34: in every step a player entry that exists before and after the step
\* keeps its isAdmin flag, and a player entry the step creates is admin
\* exactly when the players collection was empty before the step.
C34_AdminFrame ==
  [][\A j \in DOMAIN gameState'.players :
       LET before == {i \in DOMAIN gameState.players :
                        gameState.players[i].oid = gameState'.players[j].oid}
       IN /\ \A i \in before :
               gameState'.players[j].isAdmin = gameState.players[i].isAdmin
          /\ before = {} =>
               gameState'.players[j].isAdmin = (gameState.players = <<>>)]_vars

\* the game is past the lobby, the admin's connection is gone and the
\* players that are left are not admins
C34_Witness ==
  /\ gameState.stage \notin {"JOINING", "PROMPTS"}
  /\ env.dead # {}
  /\ Len(gameState.players) >= 2
  /\ \A i \in DOMAIN gameState.players : ~gameState.players[i].isAdmin

\* C35: a prompt message that arrives when the stage is not PROMPTS, an
\* answer message that arrives when the stage is not ANSWERS and a vote
\* message that arrives when the stage is not VOTING are answered with
\* result false, without broadcast, and leave the gameState as it is,
\* whoever sends them and whatever they carry.
C35_StageGates ==
  \A s \in Sockets :
    /\ gameState.stage # "PROMPTS" =>
         \A len \in PromptLens \cup PromptTexts :
           handlePrompt(gameState, s, len) = Res(gameState, "promptResult", FALSE, FALSE)
    /\ gameState.stage # "ANSWERS" =>
         \A pid \in PromptIds, text \in AnswerInputs :
           handleAnswer(gameState, s, pid, text) = Res(gameState, "answerResult", FALSE, FALSE)
    /\ gameState.stage # "VOTING" =>
         \A pid \in PromptIds, target \in Usernames :
           handleVote(gameState, s, pid, target) = Res(gameState, "voteResult", FALSE, FALSE)

\* the scores of a round are shown to three players and an audience member:
\* a prompt, an answer or a vote of any of them comes at the wrong time
C35_Witness ==
  /\ gameState.stage = "SCORING"
  /\ Len(gameState.players) = 3
  /\ gameState.audience # <<>>
  /\ \A i \in DOMAIN gameState.players : Live(gameState.players[i].socketId)

\* C36: a game played to plan by 1 to MaxPlayers players eventually reaches
\* stage GAME_OVER in round MaxRounds.
C36_GameEnds == <>(gameState.stage = "GAME_OVER" /\ gameState.round = MaxRounds)

\* the number of roster entries, players and audience, of connection s
EntriesOf(s) ==
  Cardinality({i \in DOMAIN gameState.players : gameState.players[i].socketId = s})
  + Cardinality({i \in DOMAIN gameState.audience : gameState.audience[i].socketId = s})

\* C37: no connection has more than one roster entry: none appears twice
\* among the players, twice in the audience, or in both.
C37_OneEntryPerConnection == \A s \in Sockets : EntriesOf(s) <= 1

\* C38: every key of every player's votesCast is the id of a prompt in
\* activePrompts.
C38_VotesOnActivePrompts ==
  \A i \in DOMAIN gameState.players :
    DOMAIN gameState.players[i].votesCast \subseteq ActiveIds

\* the (voter, promptId) entries of the players' votesCast maps that name
\* username `name` as target
VotesFor(name) ==
  {e \in UNION {{<<v, q>> : q \in DOMAIN gameState.players[v].votesCast} :
                  v \in DOMAIN gameState.players} :
     gameState.players[e[1]].votesCast[e[2]] = name}

\* C39: in stage VOTING the roundVotes of every player equals the number
\* of votesCast entries of the players that name it as target.
C39_VotesConserved ==
  gameState.stage = "VOTING" =>
    \A i \in DOMAIN gameState.players :
      gameState.players[i].roundVotes =
        Cardinality(VotesFor(gameState.players[i].username))

====
